---- MODULE Spec2Model ----
(***************************************************************************)
(* grotto: a host telemetry agent.  One Sampler goroutine                  *)
(* (monitorCpuUsage) reads /proc/stat on a period, differences the         *)
(* counters of every cpu line against the lookup table and sends gauges    *)
(* on the unbuffered metrics channel; one Batcher goroutine                *)
(* (startMetricsSender) appends received gauges to the open payload and,   *)
(* when its timer fires, hands the payload to a fresh Sender goroutine     *)
(* (sendPayload).                                                          *)
(***************************************************************************)
EXTENDS Integers, Sequences, FiniteSets, TLC

(* ------------------------------ bounds --------------------------------- *)
\* number of sampling cycles (calls of readCpuStats) explored
MaxCycles == 2
\* number of expiries of the Batcher's timer explored
MaxFlushes == 2
\* number of counters on a cpu line where the arithmetic is explored alone
MaxFields == 5

(* ------------------------- program constants --------------------------- *)
\* cpuDelay = 1 * time.Second, in seconds
cpuDelay == 1
hostname == "host"

(* --------------------------- /proc/stat -------------------------------- *)
\* decimal strings strconv.Atoi accepts, by value + 1
DigitStr == <<"0", "1", "2", "3", "4", "5", "6", "7", "8", "9">>
\* the counter tokens a line may hold; "x" is a non-numeric token
Tokens == {"0", "1", "x"}
NumericTokens == {t \in Tokens : \E i \in 1..Len(DigitStr) : DigitStr[i] = t}
\* a line holds the name and the tokens user, nice (later fields absent)
TokenSeqs == [1..2 -> Tokens]
NumericSeqs == [1..2 -> NumericTokens]
Line(name, tokens) == [name |-> name, tokens |-> tokens]
\* a single-core host: the aggregate line "cpu", the core's line "cpu0"
\* (equal to the aggregate, absent while the core is offline, or damaged)
\* and a line that is no cpu line
Files ==
    {<<Line("cpu", t), Line("intr", <<"x">>)>> : t \in TokenSeqs}
    \cup {<<Line("cpu", t), Line("cpu0", t), Line("intr", <<"x">>)>> : t \in NumericSeqs}
    \cup {<<Line("cpu", t), Line("cpu0", <<t[1], "x">>)>> : t \in NumericSeqs}

VARIABLES
    spc,        \* Sampler: "read" (before readCpuStats), "loop" (in the range
                \* loop), "send" (blocked in metrics <- metric)
    lookup,     \* Sampler: map cpu name -> cpuStat
    cpuStats,   \* Sampler: the slice readCpuStats returned this cycle
    idx,        \* Sampler: position of the range loop in cpuStats
    pending,    \* Sampler: gauges of difference.metrics() not yet sent
    now,        \* wall clock, seconds; also the number of cycles finished
    payload,    \* Batcher: the open payload's Gauges
    timeout,    \* Batcher: TRUE when the timer channel holds a value
    senders,    \* the Sender goroutines still running, each with its payload
    crashed,    \* TRUE once a goroutine has panicked: the process is gone
    firstSeen,  \* history: cycle in which a name was first parsed (0: never)
    prev,       \* history: name -> its samples in the last two successful cycles
    okCycles,   \* history: number of cycles whose readCpuStats succeeded
    emitted,    \* history: the gauges sent in the current cycle, with their name
    readErr,    \* history: TRUE when the last readCpuStats ended in an error
    window,     \* history: the gauges received since the last flush, in order
    expired,    \* history: number of timer expiries so far
    flushes,    \* history: number of flushes (goroutines started) so far
    returned,   \* history: number of sendPayload calls that have returned
    failedAt,   \* history: the value of flushes when a sendPayload first
                \* returned an error (0: none has)
    revision,   \* the revision of cpuStat.metrics the process was built from
    ptr,        \* Batcher: the address of the open payload (its allocation number)
    handed,     \* history: the Gauges of every payload handed over, in flush order
    sent        \* history: every gauge whose send has completed, in order

vars == <<spc, lookup, cpuStats, idx, pending, now, payload, timeout, senders,
          crashed, firstSeen, prev, okCycles, emitted, readErr, window,
          expired, flushes, returned, failedAt, revision, ptr, handed, sent>>

CpuNames == {"cpu", "cpu0"}

\* the two revisions of cpuStat.metrics in the repository: src/main.go (four
\* gauges) and src/unnamed/part_000 (five gauges, with "usage")
Revisions == {"main.go", "part_000"}

(* ----------------------------- cpuStat --------------------------------- *)
\* the zero value of cpuStat
ZeroStat == [name |-> "", user |-> 0, nice |-> 0, system |-> 0, idle |-> 0,
             total |-> 0, epoch |-> 0]

\* strconv.Atoi on a token
atoi(str) ==
    IF \E i \in 1..Len(DigitStr) : DigitStr[i] = str
    THEN [err |-> FALSE, value |-> (CHOOSE i \in 1..Len(DigitStr) : DigitStr[i] = str) - 1]
    ELSE [err |-> TRUE, value |-> 0]

\* strings.HasPrefix(cpuName, "cpu")
HasPrefixCpu(name) == name \in CpuNames

\* the loop over tokens[1:] of one line, from position i with stat so far
RECURSIVE parseTokens(_, _, _)
parseTokens(tokens, i, stat) ==
    IF i > Len(tokens) THEN [err |-> FALSE, stat |-> stat]
    ELSE LET r == atoi(tokens[i]) IN
         IF r.err THEN [err |-> TRUE, stat |-> stat]
         ELSE LET s1 == CASE i = 1 -> [stat EXCEPT !.user = r.value]
                          [] i = 2 -> [stat EXCEPT !.nice = r.value]
                          [] i = 3 -> [stat EXCEPT !.system = r.value]
                          [] i = 4 -> [stat EXCEPT !.idle = r.value]
                          [] OTHER -> stat
              IN parseTokens(tokens, i + 1, [s1 EXCEPT !.total = s1.total + r.value])

\* readCpuStats on the lines the scanner yields, at time t
RECURSIVE scanLines(_, _, _, _)
scanLines(file, i, t, stats) ==
    IF i > Len(file) THEN [err |-> FALSE, stats |-> stats]
    ELSE IF HasPrefixCpu(file[i].name)
         THEN LET r == parseTokens(file[i].tokens, 1,
                                   [ZeroStat EXCEPT !.name = file[i].name, !.epoch = t])
              IN IF r.err THEN [err |-> TRUE, stats |-> <<>>]
                 ELSE scanLines(file, i + 1, t, Append(stats, r.stat))
         ELSE scanLines(file, i + 1, t, stats)

readCpuStats(file, t) == scanLines(file, 1, t, <<>>)

\* float64(of) / float64(s.total), kept as the fraction
percentage(s, of) == [num |-> of, den |-> s.total]
userPercentage(s) == percentage(s, s.user)
nicePercentage(s) == percentage(s, s.nice)
systemPercentage(s) == percentage(s, s.system)
idlePercentage(s) == percentage(s, s.idle)
usagePercentage(s) == percentage(s, s.user + s.nice + s.system)

\* difference with the user counter subtracted the other way round
differenceUserSwapped(s, other) ==
    [name |-> other.name, epoch |-> other.epoch,
     user |-> s.user - other.user, nice |-> other.nice - s.nice,
     system |-> other.system - s.system, idle |-> other.idle - s.idle,
     total |-> other.total - s.total]

\* s.difference(other): other minus the receiver
difference(s, other) ==
    [name |-> other.name, epoch |-> other.epoch,
     user |-> other.user - s.user, nice |-> other.nice - s.nice,
     system |-> other.system - s.system, idle |-> other.idle - s.idle,
     total |-> other.total - s.total]

newGauge(s, name, value) ==
    [kind |-> "gauge", Name |-> s.name \o "-" \o name, MeasureTime |-> s.epoch,
     Value |-> value, Source |-> hostname]

metrics(s) ==
    << newGauge(s, "user", userPercentage(s)),
       newGauge(s, "nice", nicePercentage(s)),
       newGauge(s, "system", systemPercentage(s)),
       newGauge(s, "idle", idlePercentage(s)),
       newGauge(s, "usage", usagePercentage(s)) >>

\* cpuStat.metrics of src/main.go: make([]gauge, 4)
metricsMain(s) ==
    << newGauge(s, "user", userPercentage(s)),
       newGauge(s, "nice", nicePercentage(s)),
       newGauge(s, "system", systemPercentage(s)),
       newGauge(s, "idle", idlePercentage(s)) >>

\* difference.metrics() in the revision the process was built from
metricsOf(s) == IF revision = "main.go" THEN metricsMain(s) ELSE metrics(s)

(* ----------------------------- payload --------------------------------- *)
\* addMetric putting the metric in front of the Gauges
addMetricInFront(gauges, metric) ==
    IF metric.kind = "gauge"
    THEN [Gauges |-> <<metric>> \o gauges, err |-> FALSE]
    ELSE [Gauges |-> gauges, err |-> TRUE]

\* addMetric that drops a metric when Gauges already holds one
addMetricKeepsOne(gauges, metric) ==
    IF metric.kind = "gauge" /\ Len(gauges) = 0
    THEN [Gauges |-> Append(gauges, metric), err |-> FALSE]
    ELSE [Gauges |-> gauges, err |-> metric.kind # "gauge"]

\* libratoPayload.addMetric: the Gauges after the call, and the error
addMetric(gauges, metric) ==
    IF metric.kind = "gauge"
    THEN [Gauges |-> Append(gauges, metric), err |-> FALSE]
    ELSE [Gauges |-> gauges, err |-> TRUE]

\* libratoPayload.size
size(gauges) == Len(gauges)

\* a float64 that is NaN or +-Inf: the quotient of a division by 0.0
IsNaNOrInf(v) == v.den = 0

\* json.Marshal(payload): encoding/json refuses NaN and +-Inf
marshalFails(gauges) == \E i \in 1..Len(gauges) : IsNaNOrInf(gauges[i].Value)

\* what http.NewRequest and httpClient.Do can come back with
StatusCodes == {299, 300}
NetOutcomes ==
    {[fault |-> "request", code |-> 0], [fault |-> "transport", code |-> 0]}
    \cup {[fault |-> "none", code |-> c] : c \in StatusCodes}

\* sendPayload with resp.StatusCode > 300 for >= 300
sendPayloadOffByOne(gauges, net) ==
    IF marshalFails(gauges) THEN "marshal"
    ELSE IF net.fault = "request" THEN "request"
    ELSE IF net.fault = "transport" THEN "transport"
    ELSE IF net.code > 300 THEN "status"
    ELSE "nil"

\* sendPayload: the error returned, "nil" for none
sendPayload(gauges, net) ==
    IF marshalFails(gauges) THEN "marshal"
    ELSE IF net.fault = "request" THEN "request"
    ELSE IF net.fault = "transport" THEN "transport"
    ELSE IF net.code >= 300 THEN "status"
    ELSE "nil"

(* ------------------------------- Init ---------------------------------- *)
Init ==
    /\ spc = "read"
    /\ lookup = << >>
    /\ cpuStats = << >>
    /\ idx = 1
    /\ pending = << >>
    /\ now = 0
    /\ payload = << >>
    /\ timeout = FALSE
    /\ senders = << >>
    /\ crashed = FALSE
    /\ firstSeen = [n \in CpuNames |-> 0]
    /\ prev = [n \in CpuNames |-> << >>]
    /\ okCycles = 0
    /\ emitted = << >>
    /\ readErr = FALSE
    /\ window = << >>
    /\ expired = 0
    /\ flushes = 0
    /\ returned = 0
    /\ failedAt = 0
    /\ revision \in Revisions
    /\ ptr = 1
    /\ handed = << >>
    /\ sent = << >>

batcherVars == <<payload, timeout, senders, window, expired, flushes, returned,
                 failedAt, ptr, handed>>
samplerHist == <<firstSeen, prev, okCycles>>

(* ------------------------------ Sampler -------------------------------- *)
\* the last two observations of a name, with the new one appended
Observe(obs, k, stat) ==
    LET all == Append(obs, [k |-> k, stat |-> stat])
    IN IF Len(all) > 2 THEN Tail(all) ELSE all

\* os.Open("/proc/stat") fails: readCpuStats returns the error, it is
\* printed and the cycle ends in time.Sleep
SamplerOpenFails ==
    /\ ~crashed /\ spc = "read" /\ now < MaxCycles
    /\ readErr' = TRUE
    /\ emitted' = << >>
    /\ now' = now + cpuDelay
    /\ UNCHANGED <<spc, lookup, cpuStats, idx, pending, crashed, samplerHist, revision, sent>>
    /\ UNCHANGED batcherVars

\* readCpuStats with the file open: the scan and parse of `file`, a scanner
\* error or not, and the deferred file.Close(), which panics on an error.
\* An error returned is printed and the cycle ends in time.Sleep.
SamplerRead(file, scanErr, closeErr) ==
    /\ ~crashed /\ spc = "read" /\ now < MaxCycles
    /\ LET r == readCpuStats(file, now)
           err == r.err \/ scanErr
           names == {r.stats[i].name : i \in 1..Len(r.stats)}
           statOf(n) == r.stats[CHOOSE i \in 1..Len(r.stats) : r.stats[i].name = n]
       IN /\ readErr' = err
          /\ emitted' = << >>
          /\ crashed' = closeErr
          /\ IF closeErr
             THEN UNCHANGED <<spc, cpuStats, idx, now, samplerHist>>
             ELSE IF err
             THEN /\ now' = now + cpuDelay
                  /\ UNCHANGED <<spc, cpuStats, idx, samplerHist>>
             ELSE /\ cpuStats' = r.stats
                  /\ idx' = 1
                  /\ spc' = "loop"
                  /\ okCycles' = okCycles + 1
                  /\ firstSeen' = [n \in CpuNames |->
                        IF n \in names /\ firstSeen[n] = 0 THEN now + 1 ELSE firstSeen[n]]
                  /\ prev' = [n \in CpuNames |->
                        IF n \in names THEN Observe(prev[n], okCycles + 1, statOf(n))
                        ELSE prev[n]]
                  /\ UNCHANGED now
    /\ UNCHANGED <<lookup, pending, revision, sent>>
    /\ UNCHANGED batcherVars

\* SamplerFirst without its `continue`: the first observation is differenced
\* against the zero cpuStat and sent
SamplerFirstNoSkip ==
    /\ ~crashed /\ spc = "loop" /\ idx <= Len(cpuStats)
    /\ cpuStats[idx].name \notin DOMAIN lookup
    /\ lookup' = (cpuStats[idx].name :> ZeroStat) @@ lookup
    /\ pending' = metricsOf(difference(ZeroStat, cpuStats[idx]))
    /\ spc' = "send"
    /\ UNCHANGED <<cpuStats, idx, now, crashed, emitted, readErr, samplerHist, revision, sent>>
    /\ UNCHANGED batcherVars

\* lookup has no entry for the name: the zero cpuStat is stored, continue
SamplerFirst ==
    /\ ~crashed /\ spc = "loop" /\ idx <= Len(cpuStats)
    /\ cpuStats[idx].name \notin DOMAIN lookup
    /\ lookup' = (cpuStats[idx].name :> ZeroStat) @@ lookup
    /\ idx' = idx + 1
    /\ UNCHANGED <<spc, cpuStats, pending, now, crashed, emitted, readErr, samplerHist, revision, sent>>
    /\ UNCHANGED batcherVars

\* lookup has an entry: the metrics of the difference are to be sent
SamplerDiff ==
    /\ ~crashed /\ spc = "loop" /\ idx <= Len(cpuStats)
    /\ cpuStats[idx].name \in DOMAIN lookup
    /\ pending' = metricsOf(difference(lookup[cpuStats[idx].name], cpuStats[idx]))
    /\ spc' = "send"
    /\ UNCHANGED <<lookup, cpuStats, idx, now, crashed, emitted, readErr, samplerHist, revision, sent>>
    /\ UNCHANGED batcherVars

\* the range loop is over: time.Sleep(cpuDelay), then the next cycle
SamplerSleep ==
    /\ ~crashed /\ spc = "loop" /\ idx > Len(cpuStats)
    /\ now' = now + cpuDelay
    /\ spc' = "read"
    /\ cpuStats' = << >>
    /\ idx' = 1
    /\ UNCHANGED <<lookup, pending, crashed, emitted, readErr, samplerHist, revision, sent>>
    /\ UNCHANGED batcherVars

(* ------------------------------ Batcher -------------------------------- *)
\* BatcherRecv with a new timer started on every receive
BatcherRecvResets ==
    /\ ~crashed /\ spc = "send" /\ pending # << >>
    /\ payload' = addMetric(payload, Head(pending)).Gauges
    /\ window' = Append(window, Head(pending))
    /\ emitted' = Append(emitted, [name |-> cpuStats[idx].name, gauge |-> Head(pending)])
    /\ sent' = Append(sent, Head(pending))
    /\ senders' = [j \in 1..Len(senders) |->
                      IF senders[j].ptr = ptr
                      THEN [senders[j] EXCEPT
                              !.payload = addMetric(senders[j].payload, Head(pending)).Gauges]
                      ELSE senders[j]]
    /\ pending' = Tail(pending)
    /\ timeout' = FALSE
    /\ IF Tail(pending) = << >>
       THEN /\ lookup' = [lookup EXCEPT ![cpuStats[idx].name] = cpuStats[idx]]
            /\ idx' = idx + 1
            /\ spc' = "loop"
       ELSE UNCHANGED <<lookup, idx, spc>>
    /\ UNCHANGED <<cpuStats, now, crashed, readErr, samplerHist, revision,
                   expired, flushes, returned, failedAt, ptr, handed>>

\* BatcherRecv in a Batcher that receives only while no Sender is running
BatcherRecvWaits ==
    /\ ~crashed /\ spc = "send" /\ pending # << >> /\ Len(senders) = 0
    /\ payload' = addMetric(payload, Head(pending)).Gauges
    /\ window' = Append(window, Head(pending))
    /\ emitted' = Append(emitted, [name |-> cpuStats[idx].name, gauge |-> Head(pending)])
    /\ sent' = Append(sent, Head(pending))
    /\ pending' = Tail(pending)
    /\ IF Tail(pending) = << >>
       THEN /\ lookup' = [lookup EXCEPT ![cpuStats[idx].name] = cpuStats[idx]]
            /\ idx' = idx + 1
            /\ spc' = "loop"
       ELSE UNCHANGED <<lookup, idx, spc>>
    /\ UNCHANGED <<cpuStats, now, crashed, readErr, samplerHist, timeout, revision,
                   senders, expired, flushes, returned, failedAt, ptr, handed>>

\* metrics <- metric meets case metric := <-metrics: the channel is
\* unbuffered, so the send and the receive are one step.  After its last
\* metric the Sampler stores lookup[stat.name] = stat and goes on in the loop.
BatcherRecv ==
    /\ ~crashed /\ spc = "send" /\ pending # << >>
    /\ payload' = addMetric(payload, Head(pending)).Gauges
    /\ window' = Append(window, Head(pending))
    /\ emitted' = Append(emitted, [name |-> cpuStats[idx].name, gauge |-> Head(pending)])
    /\ sent' = Append(sent, Head(pending))
    /\ senders' = [j \in 1..Len(senders) |->
                      IF senders[j].ptr = ptr
                      THEN [senders[j] EXCEPT
                              !.payload = addMetric(senders[j].payload, Head(pending)).Gauges]
                      ELSE senders[j]]
    /\ pending' = Tail(pending)
    /\ IF Tail(pending) = << >>
       THEN /\ lookup' = [lookup EXCEPT ![cpuStats[idx].name] = cpuStats[idx]]
            /\ idx' = idx + 1
            /\ spc' = "loop"
       ELSE UNCHANGED <<lookup, idx, spc>>
    /\ UNCHANGED <<cpuStats, now, crashed, readErr, samplerHist, timeout, revision,
                   expired, flushes, returned, failedAt, ptr, handed>>

\* the timer of time.After(libratoDelay) fires
TimerExpire ==
    /\ ~crashed /\ ~timeout /\ expired < MaxFlushes
    /\ timeout' = TRUE
    /\ expired' = expired + 1
    /\ UNCHANGED <<spc, lookup, cpuStats, idx, pending, now, crashed, emitted,
                   readErr, samplerHist, payload, senders, window, flushes,
                   returned, failedAt, revision, ptr, handed, sent>>

\* BatcherFlush calling sendPayload without `go`: the flush waits until no
\* earlier Sender is running
BatcherFlushJoins ==
    /\ ~crashed /\ timeout /\ Len(senders) = 0
    /\ senders' = Append(senders, [payload |-> payload, window |-> window, ptr |-> ptr])
    /\ handed' = Append(handed, payload)
    /\ ptr' = ptr + 1
    /\ timeout' = FALSE
    /\ payload' = << >>
    /\ window' = << >>
    /\ flushes' = flushes + 1
    /\ UNCHANGED <<spc, lookup, cpuStats, idx, pending, now, crashed, emitted,
                   readErr, samplerHist, expired, returned, failedAt, revision, sent>>

\* BatcherFlush without payload = new(libratoPayload): the next window goes
\* on in the payload handed to the Sender
BatcherFlushKeeps ==
    /\ ~crashed /\ timeout
    /\ senders' = Append(senders, [payload |-> payload, window |-> window, ptr |-> ptr])
    /\ handed' = Append(handed, payload)
    /\ ptr' = ptr
    /\ timeout' = FALSE
    /\ payload' = payload
    /\ window' = << >>
    /\ flushes' = flushes + 1
    /\ UNCHANGED <<spc, lookup, cpuStats, idx, pending, now, crashed, emitted,
                   readErr, samplerHist, expired, returned, failedAt, revision, sent>>

\* BatcherFlush emptying the payload in place (payload.Gauges = nil) for
\* payload = new(libratoPayload): the Sender holds the object the Batcher
\* goes on writing to
BatcherFlushClears ==
    /\ ~crashed /\ timeout
    /\ senders' = Append(senders, [payload |-> << >>, window |-> window, ptr |-> ptr])
    /\ handed' = Append(handed, payload)
    /\ ptr' = ptr
    /\ timeout' = FALSE
    /\ payload' = << >>
    /\ window' = << >>
    /\ flushes' = flushes + 1
    /\ UNCHANGED <<spc, lookup, cpuStats, idx, pending, now, crashed, emitted,
                   readErr, samplerHist, expired, returned, failedAt, revision, sent>>

\* BatcherFlush that starts no goroutine for an empty payload
BatcherFlushSkipsEmpty ==
    /\ ~crashed /\ timeout
    /\ senders' = IF size(payload) = 0 THEN senders
                  ELSE Append(senders, [payload |-> payload, window |-> window, ptr |-> ptr])
    /\ handed' = IF size(payload) = 0 THEN handed ELSE Append(handed, payload)
    /\ ptr' = ptr + 1
    /\ timeout' = FALSE
    /\ payload' = << >>
    /\ window' = << >>
    /\ flushes' = flushes + 1
    /\ UNCHANGED <<spc, lookup, cpuStats, idx, pending, now, crashed, emitted,
                   readErr, samplerHist, expired, returned, failedAt, revision, sent>>

\* case <-timeout: a goroutine is started on the payload, then a new timer
\* and a new payload
BatcherFlush ==
    /\ ~crashed /\ timeout
    /\ senders' = Append(senders, [payload |-> payload, window |-> window, ptr |-> ptr])
    /\ handed' = Append(handed, payload)
    /\ ptr' = ptr + 1
    /\ timeout' = FALSE
    /\ payload' = << >>
    /\ window' = << >>
    /\ flushes' = flushes + 1
    /\ UNCHANGED <<spc, lookup, cpuStats, idx, pending, now, crashed, emitted,
                   readErr, samplerHist, expired, returned, failedAt, revision, sent>>

(* ------------------------------- Sender -------------------------------- *)
Remove(seq, i) == SubSeq(seq, 1, i - 1) \o SubSeq(seq, i + 1, Len(seq))

\* SenderReturn with a fatal log call for the print of the error
SenderReturnFatal(i, net) ==
    /\ ~crashed /\ i \in 1..Len(senders)
    /\ senders' = Remove(senders, i)
    /\ returned' = returned + 1
    /\ failedAt' = IF failedAt = 0 /\ sendPayload(senders[i].payload, net) # "nil"
                   THEN flushes ELSE failedAt
    /\ crashed' = (sendPayload(senders[i].payload, net) # "nil")
    /\ UNCHANGED <<spc, lookup, cpuStats, idx, pending, now, emitted,
                   readErr, samplerHist, payload, timeout, window, expired, flushes,
                   revision, ptr, handed, sent>>

\* the goroutine's sendPayload returns (an error is printed) and the
\* goroutine ends
SenderReturn(i, net) ==
    /\ ~crashed /\ i \in 1..Len(senders)
    /\ senders' = Remove(senders, i)
    /\ returned' = returned + 1
    /\ failedAt' = IF failedAt = 0 /\ sendPayload(senders[i].payload, net) # "nil"
                   THEN flushes ELSE failedAt
    /\ UNCHANGED <<spc, lookup, cpuStats, idx, pending, now, crashed, emitted,
                   readErr, samplerHist, payload, timeout, window, expired, flushes,
                   revision, ptr, handed, sent>>

Next ==
    \/ SamplerOpenFails
    \/ \E file \in Files, scanErr \in BOOLEAN, closeErr \in BOOLEAN :
          SamplerRead(file, scanErr, closeErr)
    \/ SamplerFirst
    \/ SamplerDiff
    \/ SamplerSleep
    \/ BatcherRecv
    \/ TimerExpire
    \/ BatcherFlush
    \/ \E i \in 1..Len(senders), net \in NetOutcomes : SenderReturn(i, net)

Spec == Init /\ [][Next]_vars

\* the Go scheduler runs a goroutine that can run: a case of the Batcher's
\* select that stays ready is taken (select picks among ready cases at random)
FairSpec == Spec /\ WF_vars(BatcherFlush) /\ WF_vars(BatcherRecv)

\* the goroutines are scheduled: a step of the Sampler's loop that can be
\* taken is taken, and so is a ready case of the Batcher's select; a Sender
\* may hang for ever
LiveSpec ==
    /\ Spec
    /\ WF_vars(BatcherFlush) /\ WF_vars(BatcherRecv)
    /\ WF_vars(SamplerFirst) /\ WF_vars(SamplerDiff) /\ WF_vars(SamplerSleep)

(* ---------------- the arithmetic of one difference, alone --------------- *)
\* cpu lines of MaxFields counters
FieldSeqs == [1..MaxFields -> NumericTokens]
\* the cpuStat readCpuStats returns for the line "cpu" with these tokens
StatOf(tokens, t) == readCpuStats(<<Line("cpu", tokens)>>, t).stats[1]

\* the Sampler in its range loop with any baseline in lookup (the zero
\* cpuStat of a first observation or an earlier sample) and any sample
DeltaInit ==
    /\ spc = "loop"
    /\ \E base \in {ZeroStat} \cup {StatOf(t, 0) : t \in FieldSeqs} :
          lookup = ("cpu" :> base)
    /\ \E t \in FieldSeqs : cpuStats = <<StatOf(t, cpuDelay)>>
    /\ idx = 1
    /\ pending = << >>
    /\ now = cpuDelay
    /\ payload = << >>
    /\ timeout = FALSE
    /\ senders = << >>
    /\ crashed = FALSE
    /\ firstSeen = [n \in CpuNames |-> IF n = "cpu" THEN 1 ELSE 0]
    /\ prev = [n \in CpuNames |-> << >>]
    /\ okCycles = 1
    /\ emitted = << >>
    /\ readErr = FALSE
    /\ window = << >>
    /\ expired = 0
    /\ flushes = 0
    /\ returned = 0
    /\ failedAt = 0
    /\ revision \in Revisions
    /\ ptr = 1
    /\ handed = << >>
    /\ sent = << >>

DeltaSpec == DeltaInit /\ [][SamplerDiff]_vars

(* ------------------------------ claims --------------------------------- *)
\* the gauges of a sequence of emitted entries
GaugeNamed(entry, field) == entry.gauge.Name = entry.name \o "-" \o field

\* a / b = c / d as numbers, for b and d not 0
SameQuotient(v, num, den) == v.den # 0 /\ den # 0 /\ v.num * den = num * v.den

\* C1: no gauge of a cpu name is sent in the cycle that first observes the
\* name: every gauge sent, and every gauge about to be sent, in the current
\* cycle (cycle now + 1) is of a name first parsed in an earlier cycle.
C1_NoMetricInFirstCycle ==
    /\ \A i \in 1..Len(emitted) : firstSeen[emitted[i].name] \in 1..now
    /\ spc = "send" => firstSeen[cpuStats[idx].name] \in 1..now

\* C1 witness: a cycle is over in which "cpu" (seen before) has sent gauges
\* and "cpu0", first observed in this cycle, has sent none
C1_Witness ==
    /\ spc = "loop" /\ idx > Len(cpuStats)
    /\ firstSeen["cpu0"] = now + 1
    /\ Len(emitted) > 0
    /\ \A i \in 1..Len(emitted) : emitted[i].name = "cpu"

\* C2 (as claimed): when a name was observed in two consecutive successful
\* cycles with samples s1 then s2 and s2.total > s1.total, the gauges sent in
\* the second cycle are the quotients of the field-wise delta s2 - s1:
\* user = (s2.user - s1.user) / (s2.total - s1.total) and
\* usage = (d.user + d.nice + d.system) / (s2.total - s1.total).
C2_MetricsFromDelta ==
    \A i \in 1..Len(emitted) :
        LET n == emitted[i].name
            obs == prev[n]
        IN (Len(obs) = 2 /\ obs[2].k = okCycles /\ obs[1].k + 1 = obs[2].k
              /\ obs[2].stat.total > obs[1].stat.total)
           => LET s1 == obs[1].stat
                  s2 == obs[2].stat
                  v == emitted[i].gauge.Value
              IN /\ GaugeNamed(emitted[i], "user")
                      => SameQuotient(v, s2.user - s1.user, s2.total - s1.total)
                 /\ GaugeNamed(emitted[i], "usage")
                      => SameQuotient(v, (s2.user - s1.user) + (s2.nice - s1.nice)
                                           + (s2.system - s1.system),
                                      s2.total - s1.total)

\* the gauges a state holds outside the Sampler: sent this cycle, in the open
\* payload, in a payload handed to a Sender
HeldGauges ==
    {emitted[i].gauge : i \in 1..Len(emitted)}
    \cup {payload[i] : i \in 1..Len(payload)}
    \cup UNION {{senders[j].payload[i] : i \in 1..Len(senders[j].payload)} :
                j \in 1..Len(senders)}

\* C3 (as claimed): a delta whose total is zero or negative is not sent, so
\* no gauge on the channel or in a payload is the quotient of a division by a
\* total that is not positive.
C3_NoNonPositiveTotal == \A g \in HeldGauges : g.Value.den > 0

\* C4: while Senders are in flight the Batcher is never held back by them: an
\* expired deadline can be flushed and a metric the Sampler offers can be
\* received, however many Senders are still running.
C4_BatcherNeverWaits ==
    (~crashed /\ Len(senders) > 0)
    => /\ timeout => ENABLED BatcherFlush
       /\ spc = "send" => ENABLED BatcherRecv

\* C4 witness: every Sender started so far is still running, more than one at
\* once, the deadline has expired again and a metric is offered
C4_Witness ==
    /\ Len(senders) > 0 /\ Len(senders) = flushes
    /\ timeout /\ spc = "send"

\* C4 witness, second part: two deliveries outstanding at once
C4_WitnessMany == Len(senders) >= 2

\* C5: a failed delivery neither ends nor blocks the Batcher: the step in
\* which a sendPayload returns an error leaves the process running and the
\* Batcher's payload and timer as they are, and once a delivery has failed
\* every expired deadline is still followed by a flush (while the process runs).
C5_FailureDoesNotStopBatcher ==
    /\ [][returned' = returned + 1
            => crashed' = crashed /\ payload' = payload /\ timeout' = timeout]_vars
    /\ \A k \in 0..MaxFlushes :
          (failedAt > 0 /\ timeout /\ flushes = k) ~> (flushes > k \/ crashed)

\* C5 witness: a delivery has failed and a later window was flushed
C5_Witness == failedAt > 0 /\ flushes > failedAt

\* C6: with a metric ready to be received, an expired deadline is followed by
\* a flush: the receive case does not postpone the flush case for ever (while
\* the Sampler, hence the process, runs).
C6_FlushNotStarved ==
    \A k \in 0..MaxFlushes :
        (timeout /\ spc = "send" /\ flushes = k) ~> (flushes > k \/ crashed)

\* C6 witness: a flush has happened, and the deadline has expired again while
\* metrics of the window were received and another one is offered
C6_Witness == flushes > 0 /\ timeout /\ spc = "send" /\ Len(window) > 0

\* C7: the payload handed to a Sender at a flush holds exactly the gauges the
\* Batcher received since the flush before, and the open payload exactly the
\* gauges received since the last flush.
C7_PayloadIsWindow ==
    /\ payload = window
    /\ size(payload) = Len(window)
    /\ \A j \in 1..Len(senders) : senders[j].payload = senders[j].window

\* C7 witness: a second payload was handed over, not empty, after a first one
\* that was not empty either, and the next window has begun
C7_Witness ==
    /\ Len(senders) = 2
    /\ Len(senders[1].payload) > 0 /\ Len(senders[2].payload) > 0
    /\ Len(payload) > 0

\* a step in which readCpuStats has ended in an error
FailedReadStep == spc = "read" /\ readErr' /\ (now' # now \/ crashed')

\* C8 (as claimed): a cycle whose readCpuStats fails is abandoned: nothing is
\* sent, lookup and the payload stay as they are, the Sampler does not crash
\* and goes on to the next cycle after the sleep.
C8_FailedCycleAbandoned ==
    [][FailedReadStep
         => /\ ~crashed'
            /\ lookup' = lookup /\ payload' = payload /\ emitted' = << >>
            /\ spc' = "read" /\ now' = now + cpuDelay]_vars

\* C9: sendPayload returns nil exactly when the payload could be serialized,
\* the request was made without a transport error and the status code is
\* below 300; a Sender that has returned is gone, its payload with it: the
\* goroutines running and returned are those the flushes started, none more.
C9_SuccessIffBelow300 ==
    /\ \A j \in 1..Len(senders) : \A net \in NetOutcomes :
          sendPayload(senders[j].payload, net) = "nil"
              <=> (~marshalFails(senders[j].payload) /\ net.fault = "none"
                      /\ net.code < 300)
    /\ Len(senders) + returned = flushes

\* C9 witness: a delivery has failed, its Sender is gone, and a Sender with a
\* payload that is not empty is running
C9_Witness ==
    /\ failedAt > 0 /\ returned > 0
    /\ \E j \in 1..Len(senders) : Len(senders[j].payload) > 0

\* C10 (as claimed): no error in a task ends the process.
C10_NoFatalError == ~crashed

\* C11 (as claimed): when the range loop of a successful cycle is over,
\* lookup maps every name parsed in the cycle to the cycle's sample, a name
\* observed for the first time included.
C11_BaselineIsLatest ==
    (spc = "loop" /\ idx > Len(cpuStats))
    => \A i \in 1..Len(cpuStats) :
          /\ cpuStats[i].name \in DOMAIN lookup
          /\ lookup[cpuStats[i].name] = cpuStats[i]

\* the position of a gauge in the list metrics() returns, by its field
FieldOrder == <<"user", "nice", "system", "idle", "usage">>

\* C12 (as claimed): the gauges sent in a cycle come in runs of five per
\* name, in the order user, nice, system, idle, usage, with the MeasureTime
\* of the name's sample of this cycle and the hostname as Source; a run is
\* complete whenever the Sampler is not in a send.
C12_FiveInFieldOrder ==
    /\ \A i \in 1..Len(emitted) :
          LET k == ((i - 1) % Len(FieldOrder)) + 1
              first == emitted[i - (k - 1)]
          IN /\ emitted[i].name = first.name
             /\ GaugeNamed(emitted[i], FieldOrder[k])
             /\ emitted[i].gauge.MeasureTime
                  = prev[emitted[i].name][Len(prev[emitted[i].name])].stat.epoch
             /\ emitted[i].gauge.MeasureTime = first.gauge.MeasureTime
             /\ emitted[i].gauge.Source = hostname
    /\ spc # "send" => Len(emitted) % Len(FieldOrder) = 0
    /\ spc = "send" => (Len(emitted) % Len(FieldOrder)) + Len(pending) = Len(FieldOrder)

\* the concatenation of a sequence of sequences
RECURSIVE Concat(_)
Concat(seqs) == IF Len(seqs) = 0 THEN << >> ELSE Head(seqs) \o Concat(Tail(seqs))

\* C13: order is kept from the Sampler to the payloads: the gauges of the
\* payloads handed over, taken in flush order, followed by those of the open
\* payload, are the gauges in the order their sends completed (no gauge is
\* sent twice, so "before" is meant of positions); the gauges received since
\* the last flush are the last ones sent, in that order.
C13_OrderPreserved ==
    /\ \A i, j \in 1..Len(sent) : i # j => sent[i] # sent[j]
    /\ Concat(handed) \o payload = sent
    /\ Len(window) <= Len(sent)
    /\ SubSeq(sent, Len(sent) - Len(window) + 1, Len(sent)) = window

\* C13 witness: the gauges of two names were sent and two flushes have split
\* them over three payloads, the last gauges in the open one
C13_Witness ==
    /\ Len(handed) = 2 /\ Len(handed[1]) > 0 /\ Len(handed[2]) > 0 /\ Len(payload) > 1
    /\ Len(sent) > Len(FieldOrder)
    /\ spc = "loop"

\* C14: a payload handed to a Sender is not written to again: no running
\* Sender holds the address of the open payload, the Gauges a Sender holds
\* are those it was handed, and a step that ends no Sender leaves every
\* running Sender's payload as it is.
C14_NoWriteAfterHandOff ==
    /\ [](\A j \in 1..Len(senders) :
             /\ senders[j].ptr # ptr
             /\ senders[j].ptr \in 1..Len(handed)
             /\ senders[j].payload = handed[senders[j].ptr])
    /\ [][Len(senders') >= Len(senders)
            => \A j \in 1..Len(senders) : senders'[j] = senders[j]]_vars

\* C14 witness: a Sender still holds a payload that is not empty while the
\* Batcher has received further gauges into a new one
C14_Witness ==
    /\ Len(senders) > 0 /\ Len(senders[1].payload) > 0
    /\ Len(payload) > 0 /\ returned = 0 /\ ~timeout

\* C15: a receive appends the gauge to the open payload and leaves the timer
\* as it is (fired or not, and the number of expiries); a fired timer is
\* taken only by a flush.
C15_RecvKeepsDeadline ==
    [][/\ Len(sent') > Len(sent)
            => /\ payload' = Append(payload, sent'[Len(sent')])
               /\ timeout' = timeout /\ expired' = expired /\ flushes' = flushes
       /\ (timeout /\ ~timeout') => flushes' = flushes + 1]_vars

\* C15 witness: after a flush, gauges were received both before and after the
\* timer fired again
C15_Witness == flushes = 1 /\ expired = 2 /\ timeout /\ Len(window) >= 2 /\ spc # "send"

\* C16: a flush takes a fired timer, hands the open payload (empty or not) to
\* exactly one new Sender and leaves a new, empty payload and a timer not
\* fired; Senders started are as many as flushes, each on a payload of its
\* own, and every expiry but a pending one has been flushed.
C16_FlushStartsOneSender ==
    /\ [][flushes' # flushes
            => /\ timeout /\ ~timeout'
               /\ flushes' = flushes + 1
               /\ Len(senders') = Len(senders) + 1
               /\ SubSeq(senders', 1, Len(senders)) = senders
               /\ senders'[Len(senders')].payload = payload
               /\ handed' = Append(handed, payload)
               /\ payload' = << >> /\ ptr' # ptr]_vars
    /\ [](/\ Len(handed) = flushes
          /\ Len(senders) + returned = flushes
          /\ expired = flushes + (IF timeout THEN 1 ELSE 0)
          /\ \A j, k \in 1..Len(senders) : j # k => senders[j].ptr # senders[k].ptr)

\* C16 witness: an empty payload was handed to a Sender, and so was one that
\* was not empty
C16_Witness ==
    /\ Len(senders) = 2
    /\ \E j, k \in 1..Len(senders) : senders[j].payload = << >> /\ senders[k].payload # << >>

\* a step of the program in which the Sampler's send completes and the
\* Batcher's payload stays as it is
SendWithoutRecv == Next /\ pending' # pending /\ payload' = payload

\* C17 (as claimed): the Sampler in a send can complete the send without the
\* Batcher's receive.
C17_SendNeverWaits == spc = "send" => ENABLED SendWithoutRecv

\* the number of positions at which gauge g occurs in the open payload and
\* in the payloads handed over
Occurrences(g) ==
    Cardinality({i \in 1..Len(payload) : payload[i] = g})
    + Cardinality({kv \in {<<k, i>> \in (1..Len(handed)) \X (1..Len(sent)) : i <= Len(handed[k])} :
                     handed[kv[1]][kv[2]] = g})

\* the number of gauges in a sequence of payloads
RECURSIVE TotalSize(_)
TotalSize(seqs) == IF Len(seqs) = 0 THEN 0 ELSE size(Head(seqs)) + TotalSize(Tail(seqs))

\* C19: every gauge whose send has completed is held exactly once, in the
\* open payload or in one payload handed over, and the payloads hold nothing
\* else.
C19_Conservation ==
    /\ \A i \in 1..Len(sent) : Occurrences(sent[i]) = 1
    /\ TotalSize(handed) + size(payload) = Len(sent)
    /\ \A k \in 1..Len(handed) : Len(handed[k]) <= Len(sent)

\* C19 witness: gauges sent are held in two payloads handed over and in the
\* open payload
C19_Witness ==
    /\ Len(handed) = 2 /\ Len(handed[1]) > 0 /\ Len(handed[2]) > 0 /\ Len(payload) > 0
    /\ returned = 2

\* the counters of a cpuStat that are not kept in a field of their own
Rest(s) == s.total - (s.user + s.nice + s.system + s.idle)

\* no counter is negative and none has gone down from sample a to sample b
Monotone(a, b) ==
    /\ a.user >= 0 /\ a.nice >= 0 /\ a.system >= 0 /\ a.idle >= 0 /\ Rest(a) >= 0
    /\ b.user >= a.user /\ b.nice >= a.nice /\ b.system >= a.system
    /\ b.idle >= a.idle /\ Rest(b) >= Rest(a)

\* C18: when the counters of a name are not negative and have not gone down
\* since the baseline, and the total has gone up, every gauge of the
\* difference is a quotient num / den with 0 <= num <= den.
C18_ValuesInUnitInterval ==
    (/\ spc = "send"
     /\ Monotone(lookup[cpuStats[idx].name], cpuStats[idx])
     /\ cpuStats[idx].total > lookup[cpuStats[idx].name].total)
    => \A i \in 1..Len(pending) :
          /\ 0 <= pending[i].Value.num
          /\ pending[i].Value.num <= pending[i].Value.den
          /\ pending[i].Value.den = cpuStats[idx].total - lookup[cpuStats[idx].name].total

\* C18 witness: against a baseline that is a sample, with counters that have
\* gone up, a gauge of value 1 and a gauge of value 0 are about to be sent
C18_Witness ==
    /\ spc = "send"
    /\ lookup[cpuStats[idx].name].total > 0
    /\ Monotone(lookup[cpuStats[idx].name], cpuStats[idx])
    /\ cpuStats[idx].total > lookup[cpuStats[idx].name].total
    /\ \E i, j \in 1..Len(pending) :
          /\ pending[i].Value.num = pending[i].Value.den
          /\ pending[j].Value.num = 0

\* C20: under fair scheduling, with Senders running or hung, a send the
\* Sampler has started is received, and a cycle whose range loop has begun
\* reaches the end of its sleep.
C20_NoDeadlock ==
    /\ (spc = "send") ~> (spc = "loop" /\ pending = << >>)
    /\ (spc \in {"loop", "send"}) ~> (spc = "read")

\* C20 witness: a cycle that sent gauges has reached the end of its sleep
\* while every Sender started is still running
C20_Witness ==
    /\ spc = "read" /\ now = MaxCycles /\ Len(emitted) > 0
    /\ Len(senders) = MaxFlushes /\ returned = 0

====
